---- MODULE Spec2Model ----
(***************************************************************************)
(* The simulation core of the Echo game (src/src/game.py and the entities  *)
(* it owns) as a state machine.                                            *)
(*                                                                         *)
(* Units.  Time is counted in milliseconds: dt = clock.tick(FPS) / 1000.0  *)
(* is a whole number of milliseconds, so every timer of the program is an  *)
(* integer here (5.0 s is 5000).  Lengths are counted in thousandths of a  *)
(* pixel, so that the diagonal step 0.707 * SPEED is the integer 2828.     *)
(* Rendering state (pulse timers, disco mode, fonts) is left out: no       *)
(* simulation step reads it.                                               *)
(***************************************************************************)
EXTENDS Integers, Sequences, FiniteSets, TLC

----------------------------------------------------------------------------
(* Program constants *)

WIDTH == 800
HEIGHT == 600
FPS == 60
ECHO_INTERVAL == 5
COLLISION_GRACE == 1
NORMAL_RADIUS == 12
SHRINK_RADIUS == 6
GHOST_BONUS == 3

PLAYER_RADIUS == 12
SPEED == 4
DIAGONAL == 707
PLAYER_TRAIL_LENGTH == 20

ECHO_RADIUS == 12
ECHO_TRAIL_LENGTH == 15
ECHO_COLORS == 8
ECHO_OVERLAP == 4

ITEM_RADIUS == 8
ITEM_MARGIN == 40

POWERUP_RADIUS == 12
POWERUP_MARGIN == 50
SPAWN_INTERVAL == 8

GHOST_EATER == "ghost_eater"
TIME_FREEZE == "time_freeze"
SHRINK == "shrink"

PLAYING == "playing"
GAME_OVER == "game_over"

PowerupType == {GHOST_EATER, TIME_FREEZE, SHRINK}

\* a time freeze that lasts longer than a powerup takes to come back
ConfigDurationLong(ptype) ==
    CASE ptype = GHOST_EATER -> 5
      [] ptype = TIME_FREEZE -> SPAWN_INTERVAL + 1
      [] ptype = SHRINK -> 6

\* POWERUP_CONFIG[ptype]["duration"], in seconds
ConfigDuration(ptype) ==
    CASE ptype = GHOST_EATER -> 5
      [] ptype = TIME_FREEZE -> 5
      [] ptype = SHRINK -> 6

\* POWERUP_CONFIG[ptype]["spawn_weight"]
ConfigWeight(ptype) ==
    CASE ptype = GHOST_EATER -> 1
      [] ptype = TIME_FREEZE -> 3
      [] ptype = SHRINK -> 3

\* seconds to milliseconds, pixels to thousandths of a pixel
Sec(s) == s * 1000
Px(p) == p * 1000

Max(a, b) == IF a >= b THEN a ELSE b
Min(a, b) == IF a <= b THEN a ELSE b
Abs(a) == IF a < 0 THEN -a ELSE a

\* math.sqrt(dx * dx + dy * dy) < r, without leaving 32-bit integers
DistLess(dx, dy, r) ==
    /\ Abs(dx) < r
    /\ Abs(dy) < r
    /\ dx * dx + dy * dy < r * r

----------------------------------------------------------------------------
(* Bounds of the model *)

\* the frame time of a regular tick and of a stalled one, in milliseconds
DtFrame == 82
DtLag == 5000
\* a stalled tick may only be an odd multiple of LagEvery among the ticks of
\* a session, and at most MaxLags of them happen in a run
LagEvery == 60
MaxLags == 1
\* _update calls per session, and per run over all its sessions
MaxSessionTicks == 185
MaxTicks == 245
\* collectible pickups per session after which it respawns out of reach
MaxPickups == 1
\* a key the loop ignores or a quit is tried every ProbeEvery-th tick
ProbeEvery == 30

\* the directions the input source holds, and the ticks at which it changes
Dirs == {<<0, 0>>, <<1, 0>>, <<-1, 0>>}
KeyChangeTicks == {115, 118, 151}

\* where random.uniform puts the collectible and the powerup
ItemNear == <<Px(400), Px(300)>>
ItemAhead == <<Px(432), Px(300)>>
ItemFar == <<Px(40), Px(40)>>
ItemSpots == {ItemNear, ItemAhead, ItemFar}
PowerupSpots ==
    {<<Px(400), Px(300)>>, <<Px(436), Px(300)>>, <<Px(460), Px(300)>>}

----------------------------------------------------------------------------
(* Player *)

\* Player.__init__
PlayerInit(x, y) ==
    [x |-> x, y |-> y, RADIUS |-> PLAYER_RADIUS,
     path_history |-> <<>>, trail |-> <<>>]

\* dx * self.SPEED with no normalisation
DisplacementFull(d, other) == d * 1000 * SPEED

\* dx * self.SPEED after the diagonal normalisation
Displacement(d, other) ==
    IF d # 0 /\ other # 0 THEN d * DIAGONAL * SPEED ELSE d * 1000 * SPEED

\* a clamp at the far wall only
ClampFar(radius, dimension, v) == Min(Px(dimension - radius), v)

\* max(self.RADIUS, min(dimension - self.RADIUS, v))
Clamp(radius, dimension, v) == Max(Px(radius), Min(Px(dimension - radius), v))

\* list.append followed by pop(0) past the capacity
PushTrail(trail, pos, capacity) ==
    LET t == Append(trail, pos)
    IN IF Len(t) > capacity THEN Tail(t) ELSE t

\* a move that records a position only when the player is asked to go somewhere
MoveSkipsStill(p, dx, dy, screen_width, screen_height) ==
    LET x == Clamp(p.RADIUS, screen_width, p.x + Displacement(dx, dy))
        y == Clamp(p.RADIUS, screen_height, p.y + Displacement(dy, dx))
    IN [p EXCEPT !.x = x, !.y = y,
                 !.path_history = IF dx = 0 /\ dy = 0 THEN @
                                  ELSE Append(@, <<x, y>>),
                 !.trail = PushTrail(@, <<x, y>>, PLAYER_TRAIL_LENGTH)]

\* Player.move
Move(p, dx, dy, screen_width, screen_height) ==
    LET x == Clamp(p.RADIUS, screen_width, p.x + Displacement(dx, dy))
        y == Clamp(p.RADIUS, screen_height, p.y + Displacement(dy, dx))
    IN [p EXCEPT !.x = x, !.y = y,
                 !.path_history = Append(@, <<x, y>>),
                 !.trail = PushTrail(@, <<x, y>>, PLAYER_TRAIL_LENGTH)]

----------------------------------------------------------------------------
(* Echo *)

\* Echo.__init__: the path is copied, so the record holds its own value
EchoInit(path, color_index) ==
    [path |-> path, frame_index |-> 0, color |-> color_index % ECHO_COLORS,
     trail |-> <<>>, finished |-> FALSE]

\* an x read one position behind the cursor
EchoXBehind(e) ==
    IF e.frame_index < Len(e.path) THEN e.path[Max(e.frame_index, 1)][1]
    ELSE IF e.path # <<>> THEN e.path[Len(e.path)][1] ELSE 0

\* Echo.x
EchoX(e) ==
    IF e.frame_index < Len(e.path) THEN e.path[e.frame_index + 1][1]
    ELSE IF e.path # <<>> THEN e.path[Len(e.path)][1] ELSE 0

\* a y whose fallback for an empty path is the middle of the field
EchoYCentre(e) ==
    IF e.frame_index < Len(e.path) THEN e.path[e.frame_index + 1][2]
    ELSE IF e.path # <<>> THEN e.path[Len(e.path)][2] ELSE Px(HEIGHT \div 2)

\* Echo.y
EchoY(e) ==
    IF e.frame_index < Len(e.path) THEN e.path[e.frame_index + 1][2]
    ELSE IF e.path # <<>> THEN e.path[Len(e.path)][2] ELSE 0

\* an update that sets finished in the call that reaches the path's end
EchoUpdateEager(e) ==
    IF e.frame_index < Len(e.path)
    THEN [e EXCEPT !.trail = PushTrail(@, e.path[e.frame_index + 1],
                                        ECHO_TRAIL_LENGTH),
                   !.frame_index = @ + 1,
                   !.finished = (e.frame_index + 1 = Len(e.path))]
    ELSE [e EXCEPT !.finished = TRUE]

\* an update that starts the replay again at the path's end
EchoUpdateLoops(e) ==
    IF e.frame_index < Len(e.path)
    THEN [e EXCEPT !.trail = PushTrail(@, e.path[e.frame_index + 1],
                                        ECHO_TRAIL_LENGTH),
                   !.frame_index = @ + 1]
    ELSE [e EXCEPT !.finished = TRUE, !.frame_index = 0]

\* an update whose cursor keeps counting past the end of the path
EchoUpdateRuns(e) ==
    IF e.frame_index < Len(e.path)
    THEN [e EXCEPT !.trail = PushTrail(@, e.path[e.frame_index + 1],
                                        ECHO_TRAIL_LENGTH),
                   !.frame_index = @ + 1]
    ELSE [e EXCEPT !.finished = TRUE, !.frame_index = @ + 1]

\* Echo.update
EchoUpdate(e) ==
    IF e.frame_index < Len(e.path)
    THEN [e EXCEPT !.trail = PushTrail(@, e.path[e.frame_index + 1],
                                        ECHO_TRAIL_LENGTH),
                   !.frame_index = @ + 1]
    ELSE [e EXCEPT !.finished = TRUE]

----------------------------------------------------------------------------
(* Item *)

\* Item.respawn: pos is the pair random.uniform drew
ItemRespawn(pos) == [x |-> pos[1], y |-> pos[2]]

\* a test that counts circles that just touch as colliding
ItemCollidesTouching(it, px, py, pradius) ==
    /\ Abs(it.x - px) <= Px(ITEM_RADIUS + pradius)
    /\ Abs(it.y - py) <= Px(ITEM_RADIUS + pradius)
    /\ (it.x - px) * (it.x - px) + (it.y - py) * (it.y - py)
          <= Px(ITEM_RADIUS + pradius) * Px(ITEM_RADIUS + pradius)

\* Item.collides_with
ItemCollides(it, px, py, pradius) ==
    DistLess(it.x - px, it.y - py, Px(ITEM_RADIUS + pradius))

----------------------------------------------------------------------------
(* Powerup and ActiveEffect *)

\* Powerup.__init__
PowerupInit ==
    [x |-> 0, y |-> 0, active |-> FALSE, powerup_type |-> TIME_FREEZE,
     spawn_timer |-> 0]

\* Powerup._spawn: ptype and pos are what random.choice and random.uniform drew
PowerupSpawn(pu, ptype, pos) ==
    [pu EXCEPT !.spawn_timer = 0, !.active = TRUE, !.powerup_type = ptype,
               !.x = pos[1], !.y = pos[2]]

\* a spawn only once the timer has gone beyond the interval
SpawnDueLate(pu, dt) == ~pu.active /\ pu.spawn_timer + dt > Sec(SPAWN_INTERVAL)

\* the update of an inactive powerup spawns
SpawnDue(pu, dt) == ~pu.active /\ pu.spawn_timer + dt >= Sec(SPAWN_INTERVAL)

\* an update whose spawn timer runs whether or not the powerup is active
PowerupUpdateRuns(pu, dt, ptype, pos) ==
    IF pu.spawn_timer + dt >= Sec(SPAWN_INTERVAL)
    THEN PowerupSpawn([pu EXCEPT !.spawn_timer = @ + dt], ptype, pos)
    ELSE [pu EXCEPT !.spawn_timer = @ + dt]

\* Powerup.update
PowerupUpdate(pu, dt, ptype, pos) ==
    IF pu.active THEN pu
    ELSE IF SpawnDue(pu, dt)
         THEN PowerupSpawn([pu EXCEPT !.spawn_timer = @ + dt], ptype, pos)
         ELSE [pu EXCEPT !.spawn_timer = @ + dt]

\* Powerup.collect: the state it leaves
PowerupCollect(pu) ==
    IF ~pu.active THEN pu ELSE [pu EXCEPT !.active = FALSE, !.spawn_timer = 0]

\* a collect that returns the kind whether or not the powerup is active
CollectedAgain(pu) == pu.powerup_type

\* Powerup.collect: the value it returns
Collected(pu) == IF ~pu.active THEN "none" ELSE pu.powerup_type

\* Powerup.collides_with
PowerupCollides(pu, px, py, pradius) ==
    /\ pu.active
    /\ DistLess(pu.x - px, pu.y - py, Px(POWERUP_RADIUS + pradius))

\* ActiveEffect.__init__
EffectInit(ptype) ==
    [powerup_type |-> ptype, duration |-> Sec(ConfigDuration(ptype)),
     remaining |-> Sec(ConfigDuration(ptype))]

\* ActiveEffect.update: the effect after the call
EffectUpdate(e, dt) == [e EXCEPT !.remaining = @ - dt]

\* an effect kept through the update that takes its remaining time to zero
EffectAliveAtZero(e) == e.remaining >= 0

\* ActiveEffect.update: the value it returns
EffectAlive(e) == e.remaining > 0

MapEffects(effects, dt) ==
    [i \in 1..Len(effects) |-> EffectUpdate(effects[i], dt)]

\* the effects aged by dt with none of them dropped
FilterEffectsKeep(effects, dt) == MapEffects(effects, dt)

\* [e for e in self.active_effects if e.update(dt)]
FilterEffects(effects, dt) == SelectSeq(MapEffects(effects, dt), EffectAlive)

\* a test that holds when exactly one effect of the kind is in the list
HasEffectSingle(effects, ptype) ==
    Len(SelectSeq(effects, LAMBDA e : e.powerup_type = ptype)) = 1

\* Game._has_effect
HasEffect(effects, ptype) ==
    \E i \in 1..Len(effects) : effects[i].powerup_type = ptype

----------------------------------------------------------------------------
(* Game *)

VARIABLES
    game,       \* the Game object: the fields reset() sets, and high_score
    keys,       \* pygame's key state, as the direction (dx, dy) it encodes
    pc,         \* where Game.run is in its loop iteration
    last_key,   \* the KEYDOWN event the iteration's event loop handled
    ticks,      \* _update calls since the last reset
    pickups,    \* collectible pickups since the last reset
    lags,       \* stalled ticks so far in the run
    run_ticks   \* _update calls so far in the run

vars == <<game, keys, pc, last_key, ticks, pickups, lags, run_ticks>>

\* a reset that starts the new session from the best score
ResetKeepsScore(g, item_pos) ==
    [player |-> PlayerInit(Px(WIDTH \div 2), Px(HEIGHT \div 2)),
     echoes |-> <<>>,
     item |-> ItemRespawn(item_pos),
     powerup |-> PowerupInit,
     active_effects |-> <<>>,
     score |-> g.high_score,
     echo_timer |-> 0,
     echo_count |-> 0,
     game_time |-> 0,
     state |-> PLAYING,
     ghosts_eaten |-> 0,
     high_score |-> g.high_score,
     sound |-> <<>>]

\* a reset that lets the echo timer run on from the session before
ResetKeepsTimer(g, item_pos) ==
    [player |-> PlayerInit(Px(WIDTH \div 2), Px(HEIGHT \div 2)),
     echoes |-> <<>>,
     item |-> ItemRespawn(item_pos),
     powerup |-> PowerupInit,
     active_effects |-> <<>>,
     score |-> 0,
     echo_timer |-> IF "echo_timer" \in DOMAIN g THEN g.echo_timer ELSE 0,
     echo_count |-> 0,
     game_time |-> 0,
     state |-> PLAYING,
     ghosts_eaten |-> 0,
     high_score |-> g.high_score,
     sound |-> <<>>]

\* Game.reset: item_pos is the position Item.__init__ drew
Reset(g, item_pos) ==
    [player |-> PlayerInit(Px(WIDTH \div 2), Px(HEIGHT \div 2)),
     echoes |-> <<>>,
     item |-> ItemRespawn(item_pos),
     powerup |-> PowerupInit,
     active_effects |-> <<>>,
     score |-> 0,
     echo_timer |-> 0,
     echo_count |-> 0,
     game_time |-> 0,
     state |-> PLAYING,
     ghosts_eaten |-> 0,
     high_score |-> g.high_score,
     sound |-> <<>>]

\* Game.__init__
GameInit(item_pos) == Reset([high_score |-> 0], item_pos)

\* self.sound.play(name): the events played in the current tick, in order
Play(g, name) == [g EXCEPT !.sound = Append(@, name)]

\* a game over that records the final score as the best score, whatever it is
GameOverOverwrites(g) ==
    Play([g EXCEPT !.state = GAME_OVER, !.high_score = g.score], "game_over")

\* Game._game_over
GameOver(g) ==
    LET over == Play([g EXCEPT !.state = GAME_OVER], "game_over")
    IN IF over.score > over.high_score
       THEN [over EXCEPT !.high_score = over.score]
       ELSE over

\* the radius taken from the effect set as it was before the expiry filter
StepEffectsStale(g, dt) ==
    [g EXCEPT !.game_time = @ + dt,
              !.active_effects = FilterEffects(@, dt),
              !.player.RADIUS = IF HasEffect(g.active_effects, SHRINK)
                                THEN SHRINK_RADIUS ELSE NORMAL_RADIUS]

\* _update, lines 121-134: the clock, the expiry filter, the player's radius
StepEffects(g, dt) ==
    LET effects == FilterEffects(g.active_effects, dt)
    IN [g EXCEPT !.game_time = @ + dt,
                 !.active_effects = effects,
                 !.player.RADIUS = IF HasEffect(effects, SHRINK)
                                   THEN SHRINK_RADIUS ELSE NORMAL_RADIUS]

\* the move of a player whose list every echo holds by reference
StepMoveShared(g, dir) ==
    LET p == Move(g.player, dir[1], dir[2], WIDTH, HEIGHT)
    IN [g EXCEPT !.player = p,
                 !.echoes = [i \in 1..Len(@) |->
                                [@[i] EXCEPT !.path = p.path_history]]]

\* _update, lines 136-149: dir is the direction the pressed keys encode
StepMove(g, dir) ==
    [g EXCEPT !.player = Move(@, dir[1], dir[2], WIDTH, HEIGHT)]

\* the echo timer has reached the interval
EchoDue(g, dt) == g.echo_timer + dt >= Sec(ECHO_INTERVAL)

\* a spawn step that carries the timer's excess over to the next interval
StepSpawnEchoCarry(g, dt) ==
    IF EchoDue(g, dt)
    THEN Play([g EXCEPT !.echo_timer = @ + dt - Sec(ECHO_INTERVAL),
                        !.echoes = Append(@, EchoInit(g.player.path_history,
                                                      g.echo_count)),
                        !.echo_count = @ + 1], "echo_spawn")
    ELSE [g EXCEPT !.echo_timer = @ + dt]

\* _update, lines 151-158
StepSpawnEcho(g, dt) ==
    IF EchoDue(g, dt)
    THEN Play([g EXCEPT !.echo_timer = 0,
                        !.echoes = Append(@, EchoInit(g.player.path_history,
                                                      g.echo_count)),
                        !.echo_count = @ + 1], "echo_spawn")
    ELSE [g EXCEPT !.echo_timer = @ + dt]

\* the advance step run whatever effect is active
StepEchoesAlways(g) ==
    [g EXCEPT !.echoes = [i \in 1..Len(@) |-> EchoUpdate(@[i])]]

\* an advance step that drops the echoes that have finished their replay
StepEchoesPrune(g) ==
    IF ~HasEffect(g.active_effects, TIME_FREEZE)
    THEN [g EXCEPT !.echoes =
                       SelectSeq([i \in 1..Len(@) |-> EchoUpdate(@[i])],
                                 LAMBDA e : ~e.finished)]
    ELSE g

\* _update, lines 160-163
StepEchoes(g) ==
    IF ~HasEffect(g.active_effects, TIME_FREEZE)
    THEN [g EXCEPT !.echoes = [i \in 1..Len(@) |-> EchoUpdate(@[i])]]
    ELSE g

\* _update, lines 165-167: item.update only animates
StepPowerup(g, dt, ptype, pos) ==
    [g EXCEPT !.powerup = PowerupUpdate(@, dt, ptype, pos)]

\* the player's circle overlaps the collectible
ItemHit(g) == ItemCollides(g.item, g.player.x, g.player.y, g.player.RADIUS)

\* a collection worth two points
StepItemTwice(g, pos) ==
    IF ItemHit(g)
    THEN Play([g EXCEPT !.score = @ + 2, !.item = ItemRespawn(pos)],
              "collect_item")
    ELSE g

\* _update, lines 169-173
StepItem(g, pos) ==
    IF ItemHit(g)
    THEN Play([g EXCEPT !.score = @ + 1, !.item = ItemRespawn(pos)],
              "collect_item")
    ELSE g

\* the player's circle overlaps the active powerup
PowerupHit(g) ==
    PowerupCollides(g.powerup, g.player.x, g.player.y, g.player.RADIUS)

\* _update, lines 175-180
StepCollect(g) ==
    IF PowerupHit(g) /\ Collected(g.powerup) # "none"
    THEN Play([g EXCEPT !.powerup = PowerupCollect(@),
                        !.active_effects =
                            Append(@, EffectInit(Collected(g.powerup)))],
              "pickup_" \o Collected(g.powerup))
    ELSE [g EXCEPT !.powerup = IF PowerupHit(g) THEN PowerupCollect(@) ELSE @]

\* the grace test letting an echo act once its cursor equals the threshold
PastGraceAt(echo) == echo.frame_index >= FPS * COLLISION_GRACE

\* echo.frame_index > FPS * COLLISION_GRACE
PastGrace(echo) == echo.frame_index > FPS * COLLISION_GRACE

\* dist < (self.player.RADIUS + echo.RADIUS - 4)
EchoHit(g, echo) ==
    DistLess(g.player.x - EchoX(echo), g.player.y - EchoY(echo),
             Px(g.player.RADIUS + ECHO_RADIUS - ECHO_OVERLAP))

\* self.echoes.remove(echo): the first element equal to echo goes
RECURSIVE Remove(_, _)
Remove(list, echo) ==
    IF list = <<>> THEN <<>>
    ELSE IF Head(list) = echo THEN Tail(list)
    ELSE <<Head(list)>> \o Remove(Tail(list), echo)

\* the ghost-eater branch removing the oldest echo, not the one that was hit
EatOldest(g, echo) ==
    Play([g EXCEPT !.echoes = Tail(@),
                   !.ghosts_eaten = @ + 1,
                   !.score = @ + GHOST_BONUS], "ghost_eaten")

\* the ghost-eater branch without the count of the echoes eaten
EatUncounted(g, echo) ==
    Play([g EXCEPT !.echoes = Remove(@, echo),
                   !.score = @ + GHOST_BONUS], "ghost_eaten")

\* the ghost-eater branch paying one point for an echo
EatCheap(g, echo) ==
    Play([g EXCEPT !.echoes = Remove(@, echo),
                   !.ghosts_eaten = @ + 1,
                   !.score = @ + 1], "ghost_eaten")

\* lines 192-196, the ghost-eater branch for one echo
Eat(g, echo) ==
    Play([g EXCEPT !.echoes = Remove(@, echo),
                   !.ghosts_eaten = @ + 1,
                   !.score = @ + GHOST_BONUS], "ghost_eaten")

\* the loop with the ghost-eater branch taken whatever the effect set holds
RECURSIVE CollisionLoopEats(_, _, _, _)
CollisionLoopEats(g, copy, i, is_ghost_eater) ==
    IF i > Len(copy) THEN g
    ELSE IF PastGrace(copy[i]) /\ EchoHit(g, copy[i])
         THEN CollisionLoopEats(Eat(g, copy[i]), copy, i + 1, is_ghost_eater)
         ELSE CollisionLoopEats(g, copy, i + 1, is_ghost_eater)

\* the loop of lines 185-199 over the copy self.echoes[:], from its i-th echo
RECURSIVE CollisionLoop(_, _, _, _)
CollisionLoop(g, copy, i, is_ghost_eater) ==
    IF i > Len(copy) THEN g
    ELSE IF PastGrace(copy[i]) /\ EchoHit(g, copy[i])
         THEN IF is_ghost_eater
              THEN CollisionLoop(Eat(g, copy[i]), copy, i + 1, is_ghost_eater)
              ELSE GameOver(g)
         ELSE CollisionLoop(g, copy, i + 1, is_ghost_eater)

\* game_time > COLLISION_GRACE
GlobalGraceOver(g) == g.game_time > Sec(COLLISION_GRACE)

\* _update, lines 182-199
StepCollide(g) ==
    IF GlobalGraceOver(g)
    THEN CollisionLoop(g, g.echoes, 1, HasEffect(g.active_effects, GHOST_EATER))
    ELSE g

\* the game after steps 1-7 of the tick, before the collection checks
BeforeChecks(g, dt, dir, ptype, ppos) ==
    StepPowerup(StepEchoes(StepSpawnEcho(StepMove(StepEffects(
        [g EXCEPT !.sound = <<>>], dt), dir), dt)), dt, ptype, ppos)

\* a tick that picks the collectible up after the echo collision pass, and
\* so not at all when that pass has ended the game
GameUpdateItemLast(g, dt, dir, ptype, ppos, ipos) ==
    LET passed == StepCollide(StepCollect(BeforeChecks(g, dt, dir, ptype,
                                                       ppos)))
    IN IF passed.state = GAME_OVER THEN passed ELSE StepItem(passed, ipos)

\* a tick whose echo collision pass runs before the powerup is collected
GameUpdateCollideFirst(g, dt, dir, ptype, ppos, ipos) ==
    StepCollect(StepCollide(StepItem(BeforeChecks(g, dt, dir, ptype, ppos),
                                     ipos)))

\* Game._update
GameUpdate(g, dt, dir, ptype, ppos, ipos) ==
    StepCollide(StepCollect(StepItem(BeforeChecks(g, dt, dir, ptype, ppos),
                                     ipos)))

----------------------------------------------------------------------------
(* The loop of Game.run and its environment *)

\* a restart key honoured in any phase
RestartAlways(g) == TRUE

\* event.key == pygame.K_r and self.state == GameState.GAME_OVER
RestartHonoured(g) == g.state = GAME_OVER

\* the frame times clock.tick may return for the next tick
DtChoices ==
    {DtFrame} \cup
    (IF /\ (ticks + 1) % LagEvery = 0
        /\ (ticks + 1) % (2 * LagEvery) # 0
        /\ lags < MaxLags
     THEN {DtLag} ELSE {})

\* the key states pygame.event.get() may leave for the next tick
KeyChoices ==
    IF game.state = PLAYING /\ (ticks + 1) \in KeyChangeTicks
    THEN Dirs ELSE {keys}

\* the positions a respawn of the collectible may draw after n pickups
ItemDraws(n) == IF n < MaxPickups THEN ItemSpots ELSE {ItemFar}

\* an ignored or quitting key is tried here
Probe == game.state = GAME_OVER \/ ticks % ProbeEvery = 0

Init ==
    /\ \E ipos \in ItemSpots : game = GameInit(ipos)
    /\ keys = <<0, 0>>
    /\ pc = "events"
    /\ last_key = "none"
    /\ ticks = 0
    /\ pickups = 0
    /\ lags = 0
    /\ run_ticks = 0

\* run, lines 98-106: the event queue holds no KEYDOWN and no QUIT
NoEvent ==
    /\ pc = "events"
    /\ pc' = "update"
    /\ last_key' = "none"
    /\ keys' \in KeyChoices
    /\ UNCHANGED <<game, ticks, pickups, lags, run_ticks>>

\* run, lines 99-103: QUIT or KEYDOWN of K_ESCAPE ends the loop
KeyEscape ==
    /\ pc = "events"
    /\ Probe
    /\ pc' = "quit"
    /\ last_key' = "esc"
    /\ UNCHANGED <<game, keys, ticks, pickups, lags, run_ticks>>

\* run, lines 104-105: KEYDOWN of K_r
KeyRestart ==
    /\ pc = "events"
    /\ pc' = "update"
    /\ last_key' = "r"
    /\ IF RestartHonoured(game)
       THEN /\ \E ipos \in ItemSpots : game' = Reset(game, ipos)
            /\ ticks' = 0
            /\ pickups' = 0
            /\ UNCHANGED <<keys, lags, run_ticks>>
       ELSE /\ Probe
            /\ UNCHANGED <<game, keys, ticks, pickups, lags, run_ticks>>

\* run, lines 108-109, while PLAYING: one call of _update
Tick ==
    /\ pc = "update"
    /\ game.state = PLAYING
    /\ ticks < MaxSessionTicks
    /\ run_ticks < MaxTicks
    /\ \E dt \in DtChoices :
         \E ptype \in (IF SpawnDue(game.powerup, dt)
                       THEN PowerupType ELSE {game.powerup.powerup_type}) :
           \E ppos \in (IF SpawnDue(game.powerup, dt)
                        THEN PowerupSpots
                        ELSE {<<game.powerup.x, game.powerup.y>>}) :
             LET hit == ItemHit(BeforeChecks(game, dt, keys, ptype, ppos))
                 n == IF hit THEN pickups + 1 ELSE pickups
             IN \E ipos \in (IF hit THEN ItemDraws(n)
                             ELSE {<<game.item.x, game.item.y>>}) :
                  /\ game' = GameUpdate(game, dt, keys, ptype, ppos, ipos)
                  /\ pickups' = n
                  /\ lags' = IF dt = DtLag THEN lags + 1 ELSE lags
    /\ ticks' = ticks + 1
    /\ run_ticks' = run_ticks + 1
    /\ pc' = "events"
    /\ last_key' = "none"
    /\ UNCHANGED keys

\* a GAME_OVER iteration that goes on advancing the echoes
IdleAdvances ==
    /\ pc = "update"
    /\ game.state = GAME_OVER
    /\ pc' = "events"
    /\ last_key' = "none"
    /\ game' = StepEchoesAlways(game)
    /\ UNCHANGED <<keys, ticks, pickups, lags, run_ticks>>

\* run, lines 108-110, while GAME_OVER: the iteration only draws
Idle ==
    /\ pc = "update"
    /\ game.state = GAME_OVER
    /\ pc' = "events"
    /\ last_key' = "none"
    /\ UNCHANGED <<game, keys, ticks, pickups, lags, run_ticks>>

Next == NoEvent \/ KeyEscape \/ KeyRestart \/ Tick \/ Idle

Spec == Init /\ [][Next]_vars

\* the loop keeps iterating for as long as it has not returned
FairSpec == Spec /\ WF_vars(Next)

----------------------------------------------------------------------------
(* What the claims speak about *)

\* a step of the run that is one call of _update
TickStep == pc = "update" /\ game.state = PLAYING /\ pc' = "events"

\* the dt of that call
TickDt == game'.game_time - game.game_time

\* the game when that call reaches its echo collision pass, as far as the
\* echoes go: steps 7-9 of the tick leave them alone
AtPass ==
    StepEchoes(StepSpawnEcho(StepMove(StepEffects(game, TickDt), keys),
                             TickDt))

\* the event name was played in the most recent tick
Played(g, name) == \E i \in 1..Len(g.sound) : g.sound[i] = name

\* the event name of a ghost-eater pickup
GhostEaterPickup == "pickup_" \o GHOST_EATER

\* the number of times it was
TimesPlayed(g, name) == Len(SelectSeq(g.sound, LAMBDA n : n = name))

\* echo e, told by its colour, is in the list
Holds(list, e) == \E i \in 1..Len(list) : list[i].color = e.color

\* some echo of g is past its own grace and overlaps the player of g
Overlapped(g) ==
    \E i \in 1..Len(g.echoes) :
        /\ g.echoes[i].frame_index > FPS * COLLISION_GRACE
        /\ EchoHit(g, g.echoes[i])

----------------------------------------------------------------------------
(* C1 *)

\* C1: in a tick whose game_time exceeds the global grace, with no
\* ghost-eater effect in the set at the collision pass and some echo past its
\* own grace within player radius + echo radius - 4 of the player, the phase
\* becomes GameOver in that tick, no echo leaves the collection, ghosts_eaten
\* keeps its value and high_score becomes max(high_score, score).
C1_FatalCollision ==
    [][(/\ TickStep
        /\ GlobalGraceOver(game')
        /\ ~HasEffect(game'.active_effects, GHOST_EATER)
        /\ Overlapped([game' EXCEPT !.echoes = AtPass.echoes]))
       => /\ game'.state = GAME_OVER
          /\ game'.echoes = AtPass.echoes
          /\ game'.ghosts_eaten = game.ghosts_eaten
          /\ game'.high_score = Max(game.high_score, game'.score)]_vars

\* a session just ended by an echo, with a score above the best so far
C1_Witness ==
    /\ game.state = GAME_OVER
    /\ Played(game, "game_over")
    /\ ~HasEffect(game.active_effects, GHOST_EATER)
    /\ Overlapped(game)
    /\ game.score > 0
    /\ game.high_score = game.score

----------------------------------------------------------------------------
(* C2 *)

\* C2: in a tick with a ghost-eater effect in the set at the collision pass,
\* every echo past its grace that overlaps the player leaves the collection,
\* ghosts_eaten grows by 1 and score by 3 for each of them, the other echoes
\* stay in their order, and the phase stays Playing.
C2_GhostEater ==
    [][(/\ TickStep
        /\ GlobalGraceOver(game')
        /\ HasEffect(game'.active_effects, GHOST_EATER))
       => LET hit(e) == /\ e.frame_index > FPS * COLLISION_GRACE
                        /\ EchoHit(game', e)
              miss(e) == ~hit(e)
              eaten == Len(SelectSeq(AtPass.echoes, hit))
              collected == IF Played(game', "collect_item") THEN 1 ELSE 0
          IN /\ game'.echoes = SelectSeq(AtPass.echoes, miss)
             /\ game'.ghosts_eaten = game.ghosts_eaten + eaten
             /\ game'.score = game.score + collected + 3 * eaten
             /\ game'.state = PLAYING]_vars

\* an echo was just eaten while the session's first echo stays in the list
C2_Witness ==
    /\ game.state = PLAYING
    /\ Played(game, "ghost_eaten")
    /\ HasEffect(game.active_effects, GHOST_EATER)
    /\ game.echoes # <<>>
    /\ game.echoes[1].color = 0
    /\ game.score = 3 * game.ghosts_eaten + pickups

----------------------------------------------------------------------------
(* C3 *)

\* C3: an echo whose cursor has not passed FPS * COLLISION_GRACE (a cursor
\* equal to it included) neither ends the game nor is eaten in that tick, and
\* in a tick whose game_time has not exceeded COLLISION_GRACE no echo does,
\* whatever the overlap: a tick that ends the game has an overlapping echo
\* with a cursor past the threshold and a game_time past the grace.
C3_Grace ==
    [][TickStep
       => /\ \A i \in 1..Len(AtPass.echoes) :
                AtPass.echoes[i].frame_index <= FPS * COLLISION_GRACE
                => Holds(game'.echoes, AtPass.echoes[i])
          /\ game'.state = GAME_OVER
                => /\ game'.game_time > Sec(COLLISION_GRACE)
                   /\ \E i \in 1..Len(AtPass.echoes) :
                        /\ AtPass.echoes[i].frame_index
                               > FPS * COLLISION_GRACE
                        /\ EchoHit(game', AtPass.echoes[i])
          /\ game'.game_time <= Sec(COLLISION_GRACE)
                => /\ game'.state = PLAYING
                   /\ game'.echoes = AtPass.echoes]_vars

\* after a tick the player still plays on top of an echo whose cursor equals
\* the threshold, with no effect active
C3_Witness ==
    /\ game.state = PLAYING
    /\ pc = "events"
    /\ game.active_effects = <<>>
    /\ \E i \in 1..Len(game.echoes) :
        /\ game.echoes[i].frame_index = FPS * COLLISION_GRACE
        /\ EchoHit(game, game.echoes[i])

----------------------------------------------------------------------------
(* C4 *)

\* C4: in a tick whose effect set still holds a time-freeze effect after the
\* expiry filter, every echo that existed before the tick keeps its cursor,
\* trail and finished flag, while the echo timer advances by dt as in any
\* tick: when it reaches ECHO_INTERVAL one echo with cursor 0 is appended
\* and the timer restarts at 0, otherwise it has grown by dt.
C4_TimeFreeze ==
    [][(/\ TickStep
        /\ HasEffect(FilterEffects(game.active_effects, TickDt), TIME_FREEZE))
       => /\ Len(game'.echoes) >= Len(game.echoes)
          /\ \A i \in 1..Len(game.echoes) :
                /\ game'.echoes[i].frame_index = game.echoes[i].frame_index
                /\ game'.echoes[i].trail = game.echoes[i].trail
                /\ game'.echoes[i].finished = game.echoes[i].finished
                /\ game'.echoes[i].color = game.echoes[i].color
          /\ IF game.echo_timer + TickDt >= Sec(ECHO_INTERVAL)
             THEN /\ game'.echo_timer = 0
                  /\ game'.echo_count = game.echo_count + 1
                  /\ Len(game'.echoes) = Len(game.echoes) + 1
                  /\ game'.echoes[Len(game'.echoes)].frame_index = 0
                  /\ game'.echoes[Len(game'.echoes)].path
                        = AtPass.player.path_history
             ELSE /\ game'.echo_timer = game.echo_timer + TickDt
                  /\ game'.echo_count = game.echo_count
                  /\ Len(game'.echoes) = Len(game.echoes)]_vars

\* a second echo has just been spawned during a time freeze that began in an
\* earlier tick, next to a first echo whose cursor is held
C4_Witness ==
    /\ pc = "events"
    /\ Played(game, "echo_spawn")
    /\ Len(game.echoes) = 2
    /\ Len(game.active_effects) = 1
    /\ game.active_effects[1].powerup_type = TIME_FREEZE
    /\ game.active_effects[1].remaining < Sec(ConfigDuration(TIME_FREEZE))
    /\ game.echoes[1].frame_index > 0
    /\ game.echoes[1].frame_index < Len(game.echoes[1].path)
    /\ game.echoes[2].frame_index = 0

----------------------------------------------------------------------------
(* C5 *)

\* a shrink effect that has been through at least one expiry filter, that is,
\* one collected in an earlier tick
ShrinkRunning(g) ==
    \E i \in 1..Len(g.active_effects) :
        /\ g.active_effects[i].powerup_type = SHRINK
        /\ g.active_effects[i].remaining < g.active_effects[i].duration

\* C5 as stated: at every tick boundary the radius is SHRINK_RADIUS when the
\* effect set holds a shrink effect and NORMAL_RADIUS when it holds none,
\* from the tick the powerup is collected.
C5_AsStated ==
    game.player.RADIUS = IF HasEffect(game.active_effects, SHRINK)
                         THEN SHRINK_RADIUS ELSE NORMAL_RADIUS

\* C5: the radius is SHRINK_RADIUS exactly when the effect set holds a shrink
\* effect collected in an earlier tick, and NORMAL_RADIUS otherwise: the tick
\* that collects the powerup ends with the effect in the set and the radius
\* still NORMAL_RADIUS.
C5_ShrinkRadius ==
    game.player.RADIUS = IF ShrinkRunning(game)
                         THEN SHRINK_RADIUS ELSE NORMAL_RADIUS

\* a tick has recomputed the radius under a shrink collected earlier
C5_Witness ==
    /\ pc = "events"
    /\ game.state = PLAYING
    /\ ShrinkRunning(game)
    /\ game.player.RADIUS = SHRINK_RADIUS

----------------------------------------------------------------------------
(* C6 *)

----------------------------------------------------------------------------
(* C7 *)

\* C7: in the GAME_OVER phase a step of the loop that is not the handling of
\* a restart key leaves the whole Game object as it is (score, game_time,
\* echo_timer, echo_count, ghosts_eaten, the player, every echo, the
\* collectible, the powerup, every effect, the phase), and the handling of a
\* restart key replaces it by the state reset builds.
C7_Frozen ==
    [][game.state = GAME_OVER
       => IF pc = "events" /\ last_key' = "r"
          THEN \E ipos \in ItemSpots : game' = Reset(game, ipos)
          ELSE game' = game]_vars

\* a loop iteration without a restart request is under way in GAME_OVER,
\* with echoes short of their paths' ends and an effect with time left
C7_Witness ==
    /\ game.state = GAME_OVER
    /\ pc = "update"
    /\ last_key = "none"
    /\ game.active_effects # <<>>
    /\ game.active_effects[1].remaining > 0
    /\ game.echoes # <<>>
    /\ game.echoes[1].frame_index < Len(game.echoes[1].path)
    /\ game.score > 0

----------------------------------------------------------------------------
(* C8 *)

\* the state the claim describes
PostReset(g) ==
    /\ g.player.x = Px(WIDTH \div 2)
    /\ g.player.y = Px(HEIGHT \div 2)
    /\ g.player.path_history = <<>>
    /\ g.player.RADIUS = NORMAL_RADIUS
    /\ g.echoes = <<>>
    /\ g.active_effects = <<>>
    /\ ~g.powerup.active
    /\ g.powerup.spawn_timer = 0
    /\ g.item.x >= Px(ITEM_MARGIN) /\ g.item.x <= Px(WIDTH - ITEM_MARGIN)
    /\ g.item.y >= Px(ITEM_MARGIN) /\ g.item.y <= Px(HEIGHT - ITEM_MARGIN)
    /\ g.score = 0
    /\ g.echo_timer = 0
    /\ g.echo_count = 0
    /\ g.game_time = 0
    /\ g.ghosts_eaten = 0
    /\ g.state = PLAYING

\* C8: the step in which Game.reset runs, whatever the session it ends held,
\* leaves the player at the field centre with an empty path history and the
\* normal radius, no echo, no effect, the powerup inactive with spawn timer
\* 0, the collectible inside its margins, score, echo_timer, echo_count,
\* game_time and ghosts_eaten 0, and the phase PLAYING.
C8_Reset ==
    [][(pc = "events" /\ last_key' = "r" /\ game.state = GAME_OVER)
       => PostReset(game')]_vars

\* reset has just run on a session that had scored
C8_Witness ==
    /\ pc = "update"
    /\ last_key = "r"
    /\ ticks = 0
    /\ run_ticks > 0
    /\ game.high_score > 0
    /\ game.score = 0
    /\ game.echoes = <<>>

----------------------------------------------------------------------------
(* C9 *)

\* C9: the handling of a restart key while the phase is PLAYING leaves the
\* whole Game object (score, clocks, counters, echoes, effects, the player
\* with its path, the phase) and the session's tick count unchanged.
C9_RestartIgnored ==
    [][(pc = "events" /\ last_key' = "r" /\ game.state = PLAYING)
       => /\ game' = game
          /\ ticks' = ticks]_vars

\* a restart key has been handled in the middle of a session that goes on
\* with its score, its echo, its effect and the player's path
C9_Witness ==
    /\ pc = "update"
    /\ last_key = "r"
    /\ game.state = PLAYING
    /\ ticks > 0
    /\ game.score > 0
    /\ game.echoes # <<>>
    /\ game.active_effects # <<>>
    /\ Len(game.player.path_history) = ticks

----------------------------------------------------------------------------
(* C10 *)

\* C10: no step of the run lowers high_score: the step that takes the phase
\* from PLAYING to GAME_OVER makes it the maximum of its old value and the
\* session's final score, every other step (ticks that do not end the game,
\* key handling, reset, idle iterations) leaves it as it is, and so a
\* GAME_OVER state has high_score >= score.
C10_BestScore ==
    [][/\ game'.high_score >= game.high_score
       /\ IF game.state = PLAYING /\ game'.state = GAME_OVER
          THEN game'.high_score = Max(game.high_score, game'.score)
          ELSE game'.high_score = game.high_score
       /\ game'.state = GAME_OVER => game'.high_score >= game'.score]_vars

\* a later session has just ended below the best score of an earlier one
C10_Witness ==
    /\ game.state = GAME_OVER
    /\ Played(game, "game_over")
    /\ run_ticks > ticks
    /\ game.high_score > game.score

----------------------------------------------------------------------------
(* C11 *)

\* C11: a tick, in which the player's path history grows by one position,
\* leaves the path of every echo that existed before it as it was, in length
\* and in contents, and an echo spawned in the tick holds the path history
\* as it was at the spawn.
C11_Snapshot ==
    [][TickStep
       => /\ Len(game'.player.path_history)
                = Len(game.player.path_history) + 1
          /\ \A i \in 1..Len(game.echoes) : \A j \in 1..Len(game'.echoes) :
                game'.echoes[j].color = game.echoes[i].color
                => game'.echoes[j].path = game.echoes[i].path
          /\ Played(game', "echo_spawn")
                => game'.echoes[Len(game'.echoes)].path
                      = game'.player.path_history]_vars

\* an echo that has replayed part of its path while the player's path
\* history has grown well beyond the echo's
C11_Witness ==
    /\ game.state = PLAYING
    /\ pc = "events"
    /\ game.echoes # <<>>
    /\ game.echoes[1].frame_index > 0
    /\ Len(game.echoes[1].path) + FPS <= Len(game.player.path_history)
    /\ game.echoes[1].path
          = SubSeq(game.player.path_history, 1, Len(game.echoes[1].path))

----------------------------------------------------------------------------
(* The classes driven call by call, as tests/test_game.py drives them *)

\* In these runs the variable game holds the object under test and what the
\* caller has seen of it; the loop of Game.run takes no step.

\* the longest path an echo is built from, and the calls made on an object
MaxPath == 3
MaxUpdates == 5
MaxMoves == 2
MaxPowerupCalls == 6
\* the longest effect list built by direct calls, and the calls made on it
MaxEffects == 2
MaxEffectCalls == 4
\* the collision tests made on one collectible and one powerup
MaxCollideCalls == 2

\* the positions the paths are made of, and the colour indices
UnitPoints == {<<Px(50), Px(50)>>, <<Px(60), Px(70)>>}
UnitColors == {0, ECHO_COLORS + 1}
UnitPaths == UNION {[1..n -> UnitPoints] : n \in 0..MaxPath}

\* where a player is constructed (beside, on and beyond the walls too), the
\* radius the Game has given it, and the directions of a move call
StartXs == {Px(0 - 20), Px(9), Px(WIDTH \div 2), Px(WIDTH - 9), Px(WIDTH + 100)}
StartYs == {Px(0 - 20), Px(HEIGHT \div 2), Px(HEIGHT - 6), Px(HEIGHT + 100)}
UnitRadii == {NORMAL_RADIUS, SHRINK_RADIUS}
UnitDirs == {-1, 0, 1} \X {-1, 0, 1}

\* the dt values a powerup is updated with
UnitDts == {0, DtFrame, Sec(3), Sec(SPAWN_INTERVAL)}

\* the dt values an effect list is filtered with
EffectDts == {0, DtFrame, Sec(1), Sec(5)}

\* e = Echo(path, color_index)
EchoFixture(path, color_index) ==
    [test |-> "echo", echo |-> EchoInit(path, color_index), calls |-> 0]

\* p = Player(x, y), with the radius _update has assigned
PlayerFixture(x, y, radius) ==
    [test |-> "player", player |-> [PlayerInit(x, y) EXCEPT !.RADIUS = radius],
     calls |-> 0]

\* p = Powerup(800, 600): elapsed is the dt given to update since the powerup
\* became inactive, returned the value of the last collect, handed the number
\* of kinds collect has returned since the last spawn, last what the last
\* call was: an update that spawned, another update or a collect
PowerupFixture ==
    [test |-> "powerup", powerup |-> PowerupInit, elapsed |-> 0,
     returned |-> "none", handed |-> 0, last |-> "init", calls |-> 0]

\* the list Game.active_effects on its own: dt is the argument of the last
\* filter, last what the last call was
EffectsFixture ==
    [test |-> "effects", active_effects |-> <<>>, dt |-> 0, last |-> "init",
     calls |-> 0]

\* where the collectible and the powerup of the collision tests are, and the
\* points, as offsets from there, and radii they are tested against: on
\* them, just inside, on and just outside the circle of the summed radii
\* (20 = 8 + 12 for the collectible, 24 = 12 + 12 and 18 = 12 + 6 for the
\* powerup), and far away
CollideSpot == <<Px(100), Px(100)>>
CollideOffsets ==
    {<<0, 0>>, <<Px(12), Px(16)>>, <<Px(20), 0>>, <<Px(20) - 1, 0>>,
     <<Px(20) + 1, 0>>, <<0 - Px(12), Px(16) - 1>>, <<0, Px(24)>>,
     <<0, 1 - Px(24)>>, <<Px(18), 0>>, <<Px(300), Px(300)>>}

\* item = Item(800, 600) and p = Powerup(800, 600), put on CollideSpot, the
\* powerup spawned or not: px, py, pradius are the arguments of the last
\* collides_with calls, item_hit and powerup_hit what they returned
CollideFixture(spawned) ==
    [test |-> "collide",
     item |-> ItemRespawn(CollideSpot),
     powerup |-> IF spawned
                 THEN PowerupSpawn(PowerupInit, SHRINK, CollideSpot)
                 ELSE [PowerupInit EXCEPT !.x = CollideSpot[1],
                                          !.y = CollideSpot[2]],
     px |-> 0, py |-> 0, pradius |-> 0,
     item_hit |-> FALSE, powerup_hit |-> FALSE, calls |-> 0]

UnitInit ==
    /\ game \in {EchoFixture(path, c) : path \in UnitPaths, c \in UnitColors}
           \cup {PlayerFixture(x, y, r) :
                    x \in StartXs, y \in StartYs, r \in UnitRadii}
           \cup {PowerupFixture}
           \cup {EffectsFixture}
           \cup {CollideFixture(spawned) : spawned \in BOOLEAN}
    /\ keys = <<0, 0>>
    /\ pc = "calls"
    /\ last_key = "none"
    /\ ticks = 0
    /\ pickups = 0
    /\ lags = 0
    /\ run_ticks = 0

\* e.update()
EchoUpdateCall ==
    /\ pc = "calls"
    /\ game.test = "echo"
    /\ game.calls < MaxUpdates
    /\ game' = [game EXCEPT !.echo = EchoUpdate(@), !.calls = @ + 1]
    /\ UNCHANGED <<keys, pc, last_key, ticks, pickups, lags, run_ticks>>

\* p.move(dx, dy, 800, 600), made as _update makes it: after the assignment
\* of the radius the effect set asks for
MoveCall ==
    /\ pc = "calls"
    /\ game.test = "player"
    /\ game.calls < MaxMoves
    /\ \E dir \in UnitDirs, radius \in UnitRadii :
         /\ game' = [game EXCEPT
                        !.player = Move([@ EXCEPT !.RADIUS = radius],
                                        dir[1], dir[2], WIDTH, HEIGHT),
                        !.calls = @ + 1]
         /\ keys' = dir
    /\ UNCHANGED <<pc, last_key, ticks, pickups, lags, run_ticks>>

\* p.update(dt)
PowerupUpdateCall ==
    /\ pc = "calls"
    /\ game.test = "powerup"
    /\ game.calls < MaxPowerupCalls
    /\ \E dt \in UnitDts, ptype \in PowerupType, pos \in PowerupSpots :
         LET pu == PowerupUpdate(game.powerup, dt, ptype, pos)
             spawned == pu.active /\ ~game.powerup.active
         IN game' = [game EXCEPT
                        !.powerup = pu,
                        !.elapsed = IF game.powerup.active THEN @ ELSE @ + dt,
                        !.handed = IF spawned THEN 0 ELSE @,
                        !.last = IF spawned THEN "spawn" ELSE "update",
                        !.calls = @ + 1]
    /\ UNCHANGED <<keys, pc, last_key, ticks, pickups, lags, run_ticks>>

\* p.collect()
PowerupCollectCall ==
    /\ pc = "calls"
    /\ game.test = "powerup"
    /\ game.calls < MaxPowerupCalls
    /\ game' = [game EXCEPT
                   !.powerup = PowerupCollect(@),
                   !.returned = Collected(game.powerup),
                   !.handed = IF Collected(game.powerup) # "none"
                              THEN @ + 1 ELSE @,
                   !.elapsed = IF game.powerup.active THEN 0 ELSE @,
                   !.last = "collect",
                   !.calls = @ + 1]
    /\ UNCHANGED <<keys, pc, last_key, ticks, pickups, lags, run_ticks>>

\* active_effects = [e for e in active_effects if e.update(dt)]
EffectsFilterCall ==
    /\ pc = "calls"
    /\ game.test = "effects"
    /\ game.calls < MaxEffectCalls
    /\ \E dt \in EffectDts :
         game' = [game EXCEPT !.active_effects = FilterEffects(@, dt),
                              !.dt = dt,
                              !.last = "filter",
                              !.calls = @ + 1]
    /\ UNCHANGED <<keys, pc, last_key, ticks, pickups, lags, run_ticks>>

\* active_effects.append(ActiveEffect(ptype))
EffectsAppendCall ==
    /\ pc = "calls"
    /\ game.test = "effects"
    /\ game.calls < MaxEffectCalls
    /\ Len(game.active_effects) < MaxEffects
    /\ \E ptype \in PowerupType :
         game' = [game EXCEPT !.active_effects = Append(@, EffectInit(ptype)),
                              !.last = "append",
                              !.calls = @ + 1]
    /\ UNCHANGED <<keys, pc, last_key, ticks, pickups, lags, run_ticks>>

\* item.collides_with(px, py, pradius) and p.collides_with(px, py, pradius)
CollidesCall ==
    /\ pc = "calls"
    /\ game.test = "collide"
    /\ game.calls < MaxCollideCalls
    /\ \E off \in CollideOffsets, pradius \in UnitRadii :
         LET px == game.item.x + off[1]
             py == game.item.y + off[2]
         IN game' = [game EXCEPT
                        !.px = px, !.py = py, !.pradius = pradius,
                        !.item_hit = ItemCollides(game.item, px, py, pradius),
                        !.powerup_hit =
                            PowerupCollides(game.powerup, px, py, pradius),
                        !.calls = @ + 1]
    /\ UNCHANGED <<keys, pc, last_key, ticks, pickups, lags, run_ticks>>

UnitNext ==
    \/ EchoUpdateCall \/ MoveCall \/ PowerupUpdateCall \/ PowerupCollectCall
    \/ EffectsFilterCall \/ EffectsAppendCall \/ CollidesCall

UnitSpec == UnitInit /\ [][UnitNext]_vars

\* the runs of the loop and the runs of the calls, side by side
AllInit == Init \/ UnitInit
AllNext == Next \/ UnitNext
AllSpec == AllInit /\ [][AllNext]_vars

----------------------------------------------------------------------------
(* C12 *)

\* C12: an echo built from a non-empty path reports, after k calls of
\* update, the path's element of index k (counted from 0) when k is below
\* the path's length, and the path's last element from then on.
C12_Replay ==
    (game.test = "echo" /\ game.echo.path # <<>>)
    => LET path == game.echo.path
           k == game.calls
       IN <<EchoX(game.echo), EchoY(game.echo)>>
             = IF k < Len(path) THEN path[k + 1] ELSE path[Len(path)]

\* an echo updated more often than its path is long holds the last element
\* of a path that began elsewhere
C12_Witness ==
    /\ game.test = "echo"
    /\ Len(game.echo.path) = MaxPath
    /\ game.calls > Len(game.echo.path)
    /\ game.echo.path[1] # game.echo.path[Len(game.echo.path)]
    /\ game.echo.path[Len(game.echo.path) - 1]
          # game.echo.path[Len(game.echo.path)]
    /\ EchoX(game.echo) = game.echo.path[Len(game.echo.path)][1]

----------------------------------------------------------------------------
(* C13 *)

\* C13 as stated: the finished flag of an echo built from a non-empty path
\* is false after every k < len(path) calls of update and true once k has
\* reached len(path).
C13_AsStated ==
    (game.test = "echo" /\ game.echo.path # <<>>)
    => (game.echo.finished <=> game.calls >= Len(game.echo.path))

\* C13: the finished flag is set by the first call of update that finds the
\* cursor at the path's end, which is call number len(path) + 1: it is false
\* after every k <= len(path) calls and true after every k > len(path) calls.
C13_Finished ==
    game.test = "echo"
    => /\ game.echo.finished <=> game.calls > Len(game.echo.path)
       /\ game.echo.frame_index = Min(game.calls, Len(game.echo.path))

\* the call after the one that took the cursor to the end of a path of
\* MaxPath positions has set the flag
C13_Witness ==
    /\ game.test = "echo"
    /\ Len(game.echo.path) = MaxPath
    /\ game.calls = Len(game.echo.path) + 1
    /\ game.echo.frame_index = Len(game.echo.path)
    /\ game.echo.finished

----------------------------------------------------------------------------
(* C14 *)

\* C14: a call of update on a finished echo leaves the echo as it is:
\* cursor, trail, path and with them the reported position are unchanged,
\* and finished stays true.
C14_FinishedNoOp ==
    [][(game.test = "echo" /\ game.echo.finished)
       => /\ game'.echo.frame_index = game.echo.frame_index
          /\ game'.echo.trail = game.echo.trail
          /\ game'.echo.path = game.echo.path
          /\ EchoX(game'.echo) = EchoX(game.echo)
          /\ EchoY(game'.echo) = EchoY(game.echo)
          /\ game'.echo.finished]_vars

\* update has been called on an echo that had already finished a path that
\* ends away from where it began
C14_Witness ==
    /\ game.test = "echo"
    /\ game.echo.finished
    /\ game.calls >= Len(game.echo.path) + 2
    /\ Len(game.echo.path) >= 2
    /\ game.echo.path[1] # game.echo.path[Len(game.echo.path)]
    /\ Len(game.echo.trail) = Len(game.echo.path)

----------------------------------------------------------------------------
(* C15 *)

\* C15: a call of move, whatever its direction and whether or not the clamp
\* lets the player go anywhere, appends to the path history exactly one
\* position, the one the player ends on, so the history is as long as the
\* number of calls; in the Game every tick appends the position the player
\* ends on, and at every point of a run the history is as long as the number
\* of ticks played since the last reset.
C15_PathHistory ==
    [][/\ (pc = "calls" /\ game.test = "player")
          => /\ game'.player.path_history
                   = Append(game.player.path_history,
                            <<game'.player.x, game'.player.y>>)
             /\ Len(game'.player.path_history) = game'.calls
       /\ TickStep
          => game'.player.path_history
                = Append(game.player.path_history,
                         <<game'.player.x, game'.player.y>>)
       /\ pc # "calls"
          => Len(game'.player.path_history) = ticks']_vars

\* a move towards the wall the player already stands against has recorded
\* the same position a second time
C15_Witness ==
    /\ pc = "calls"
    /\ game.test = "player"
    /\ game.calls = 2
    /\ keys = <<1, 0>>
    /\ game.player.x = Px(WIDTH - game.player.RADIUS)
    /\ game.player.path_history
          = <<<<game.player.x, game.player.y>>,
              <<game.player.x, game.player.y>>>>

----------------------------------------------------------------------------
(* C16 *)

\* the player's centre is at least its radius away from every wall
InField(p) ==
    /\ p.x >= Px(p.RADIUS) /\ p.x <= Px(WIDTH - p.RADIUS)
    /\ p.y >= Px(p.RADIUS) /\ p.y <= Px(HEIGHT - p.RADIUS)

\* C16: after a call of move, from any position, one outside the field
\* included, and in any of the nine directions, x lies in
\* [radius, width - radius] and y in [radius, height - radius] for the radius
\* the player has at the call, the one just assigned when an effect has begun
\* or ended; in the Game the same holds at the end of every tick.
C16_InField ==
    [][/\ (pc = "calls" /\ game.test = "player") => InField(game'.player)
       /\ TickStep => InField(game'.player)]_vars

\* a player that stood against the left wall with the reduced radius has
\* been given the normal radius and, asked to go left, stands further in
C16_Witness ==
    /\ pc = "calls"
    /\ game.test = "player"
    /\ game.calls = 2
    /\ keys[1] = -1
    /\ game.player.path_history[1][1] = Px(SHRINK_RADIUS)
    /\ game.player.RADIUS = NORMAL_RADIUS
    /\ game.player.x = Px(NORMAL_RADIUS)

----------------------------------------------------------------------------
(* C17 *)

\* C17: in a tick in which the player's circle, after the move, overlaps the
\* collectible, the collection adds exactly 1 to the score, once (what else
\* the score gains in the tick is GHOST_BONUS per echo eaten), and the
\* collectible moves to a position within [MARGIN, width - MARGIN] and
\* [MARGIN, height - MARGIN]; in a tick without the overlap the collection
\* adds nothing and the collectible stays where it is.
C17_Collect ==
    [][TickStep
       => LET eaten == game'.ghosts_eaten - game.ghosts_eaten
              overlap == DistLess(game.item.x - AtPass.player.x,
                                  game.item.y - AtPass.player.y,
                                  Px(ITEM_RADIUS + AtPass.player.RADIUS))
          IN IF overlap
             THEN /\ TimesPlayed(game', "collect_item") = 1
                  /\ game'.score = game.score + 1 + GHOST_BONUS * eaten
                  /\ game'.item.x >= Px(ITEM_MARGIN)
                  /\ game'.item.x <= Px(WIDTH - ITEM_MARGIN)
                  /\ game'.item.y >= Px(ITEM_MARGIN)
                  /\ game'.item.y <= Px(HEIGHT - ITEM_MARGIN)
             ELSE /\ ~Played(game', "collect_item")
                  /\ game'.score = game.score + GHOST_BONUS * eaten
                  /\ game'.item = game.item]_vars

\* the collectible has just been collected and put elsewhere
C17_Witness ==
    /\ pc = "events"
    /\ game.state = PLAYING
    /\ Played(game, "collect_item")
    /\ game.score = 1
    /\ pickups = 1
    /\ ~ItemHit(game)
    /\ <<game.item.x, game.item.y>> = ItemFar

----------------------------------------------------------------------------
(* C18 *)

\* C18: a call of update on an active powerup leaves it active and leaves
\* its spawn timer, its kind and its position as they are, whatever dt is
\* and however many such calls are made; the call that ends the active state
\* is collect.
C18_ActiveStays ==
    [][(pc = "calls" /\ game.test = "powerup" /\ game.powerup.active)
       => IF game'.last = "collect"
          THEN ~game'.powerup.active
          ELSE /\ game'.last = "update"
               /\ game'.powerup.active
               /\ game'.powerup.spawn_timer = game.powerup.spawn_timer
               /\ game'.powerup.powerup_type = game.powerup.powerup_type
               /\ game'.powerup.x = game.powerup.x
               /\ game'.powerup.y = game.powerup.y]_vars

\* an active powerup has been updated again and again since it spawned
C18_Witness ==
    /\ pc = "calls"
    /\ game.test = "powerup"
    /\ game.powerup.active
    /\ game.last = "update"
    /\ game.powerup.spawn_timer = 0
    /\ game.calls = MaxPowerupCalls

----------------------------------------------------------------------------
(* C19 *)

\* C19: collect on an active powerup returns its kind and leaves it inactive
\* with spawn timer 0; collect on an inactive powerup returns none and
\* changes nothing; so at no point has collect returned a kind more than
\* once since the last spawn.
C19_Collect ==
    [][(pc = "calls" /\ game.test = "powerup")
       => /\ game'.last = "collect"
             => IF game.powerup.active
                THEN /\ game'.returned = game.powerup.powerup_type
                     /\ game'.returned \in PowerupType
                     /\ ~game'.powerup.active
                     /\ game'.powerup.spawn_timer = 0
                     /\ game'.handed = 1
                ELSE /\ game'.returned = "none"
                     /\ game'.powerup = game.powerup
                     /\ game'.handed = game.handed
          /\ game'.handed <= 1]_vars

\* a second collect after a spawn has returned none, the first having
\* returned the kind
C19_Witness ==
    /\ pc = "calls"
    /\ game.test = "powerup"
    /\ game.last = "collect"
    /\ game.returned = "none"
    /\ game.handed = 1
    /\ ~game.powerup.active
    /\ game.powerup.spawn_timer = 0
    /\ game.powerup.powerup_type = GHOST_EATER

----------------------------------------------------------------------------
(* C20 *)

\* C20: an update of an inactive powerup makes it active exactly when the dt
\* of the updates since the powerup became inactive, this one included, has
\* reached or passed SPAWN_INTERVAL, so an inactive powerup has always
\* accumulated less; the update that spawns leaves the spawn timer at 0, a
\* kind among the three configured and a position within
\* [MARGIN, dimension - MARGIN] on both axes, and one that does not spawn
\* leaves the accumulated time in the spawn timer.
C20_Spawn ==
    [][(/\ pc = "calls" /\ game.test = "powerup"
        /\ ~game.powerup.active /\ game'.last # "collect")
       => /\ game.elapsed < Sec(SPAWN_INTERVAL)
          /\ game'.powerup.active <=> game'.elapsed >= Sec(SPAWN_INTERVAL)
          /\ IF game'.powerup.active
             THEN /\ game'.powerup.spawn_timer = 0
                  /\ game'.powerup.powerup_type \in PowerupType
                  /\ game'.powerup.x >= Px(POWERUP_MARGIN)
                  /\ game'.powerup.x <= Px(WIDTH - POWERUP_MARGIN)
                  /\ game'.powerup.y >= Px(POWERUP_MARGIN)
                  /\ game'.powerup.y <= Px(HEIGHT - POWERUP_MARGIN)
             ELSE game'.powerup.spawn_timer = game'.elapsed]_vars

\* a powerup collected once has spawned again in the update that took the
\* time accumulated since the collect past the interval
C20_Witness ==
    /\ pc = "calls"
    /\ game.test = "powerup"
    /\ game.last = "spawn"
    /\ game.powerup.active
    /\ game.returned \in PowerupType
    /\ game.handed = 0
    /\ game.elapsed > Sec(SPAWN_INTERVAL)
    /\ game.powerup.spawn_timer = 0

----------------------------------------------------------------------------
(* C21 *)

\* the effects of a list after dt more has passed, the spent ones dropped
Aged(effects, dt) ==
    LET less(e) == [e EXCEPT !.remaining = @ - dt]
        live(e) == e.remaining > 0
    IN SelectSeq([i \in 1..Len(effects) |-> less(effects[i])], live)

\* every effect of a list has time left, and no more than its duration
AllLive(effects) ==
    \A i \in 1..Len(effects) :
        /\ effects[i].remaining > 0
        /\ effects[i].remaining <= effects[i].duration

\* C21: a tick takes exactly dt off the remaining time of every effect that
\* was in the set before it and drops those left with 0 or less, keeping the
\* others in order (an effect collected in the tick follows them, untouched);
\* the filter of the list does the same when called on its own; so wherever
\* the set is looked at between ticks or calls, every effect in it has
\* 0 < remaining <= duration.
C21_Expiry ==
    [][/\ TickStep
          => LET kept == Aged(game.active_effects, TickDt)
             IN /\ Len(game'.active_effects) >= Len(kept)
                /\ SubSeq(game'.active_effects, 1, Len(kept)) = kept
                /\ Len(game'.active_effects) <= Len(kept) + 1
                /\ AllLive(game'.active_effects)
       /\ (pc = "calls" /\ game.test = "effects" /\ game'.last = "filter")
          => /\ game'.active_effects = Aged(game.active_effects, game'.dt)
             /\ AllLive(game'.active_effects)]_vars

\* a filter has just dropped one effect, left with exactly 0, and kept
\* another, with less time than before
C21_Witness ==
    /\ pc = "calls"
    /\ game.test = "effects"
    /\ game.last = "filter"
    /\ game.dt = Sec(ConfigDuration(TIME_FREEZE))
    /\ game.calls = 3
    /\ Len(game.active_effects) = 1
    /\ game.active_effects[1].powerup_type = SHRINK
    /\ game.active_effects[1].remaining
          = Sec(ConfigDuration(SHRINK)) - game.dt

----------------------------------------------------------------------------
(* C22 *)

\* the effect a powerup of a kind brings
Fresh(ptype) ==
    [powerup_type |-> ptype, duration |-> Sec(ConfigDuration(ptype)),
     remaining |-> Sec(ConfigDuration(ptype))]

\* how many effects of a kind a list holds
CountOf(effects, ptype) ==
    Cardinality({i \in 1..Len(effects) : effects[i].powerup_type = ptype})

\* has_effect is the test that at least one effect of the kind is there
ExistenceTest(effects) ==
    \A ptype \in PowerupType :
        HasEffect(effects, ptype) <=> CountOf(effects, ptype) >= 1

\* C22: a tick in which the player's circle overlaps the active powerup ends
\* with the effects the filter kept, unchanged and in order, followed by one
\* new effect of the powerup's kind with remaining = duration = the kind's
\* configured duration, and a tick without that ends with the kept effects
\* alone; an append to the list on its own adds the new effect after the
\* others, whatever their kinds, and changes none of them; has_effect holds
\* of a kind exactly when the list holds one effect of it or more.
C22_Append ==
    [][/\ TickStep
          => LET kept == Aged(game.active_effects, TickDt)
                 active == \/ game.powerup.active
                           \/ game.powerup.spawn_timer + TickDt
                                 >= Sec(SPAWN_INTERVAL)
                 overlap == DistLess(game'.powerup.x - AtPass.player.x,
                                     game'.powerup.y - AtPass.player.y,
                                     Px(POWERUP_RADIUS + AtPass.player.RADIUS))
             IN /\ game'.active_effects
                      = IF active /\ overlap
                        THEN Append(kept, Fresh(game'.powerup.powerup_type))
                        ELSE kept
                /\ ExistenceTest(game'.active_effects)
       /\ (pc = "calls" /\ game.test = "effects" /\ game'.last = "append")
          => /\ \E ptype \in PowerupType :
                   game'.active_effects
                      = Append(game.active_effects, Fresh(ptype))
             /\ ExistenceTest(game'.active_effects)]_vars

\* a second shrink effect has been appended behind one that has been running
\* for a while
C22_Witness ==
    /\ pc = "calls"
    /\ game.test = "effects"
    /\ game.last = "append"
    /\ Len(game.active_effects) = 2
    /\ game.active_effects[1].powerup_type = SHRINK
    /\ game.active_effects[1].remaining < game.active_effects[1].duration
    /\ game.active_effects[2] = Fresh(SHRINK)
    /\ HasEffect(game.active_effects, SHRINK)

----------------------------------------------------------------------------
(* C23 *)

\* the centres (ax, ay) and (bx, by) are strictly less than reach apart
Closer(ax, ay, bx, by, reach) ==
    IF Abs(ax - bx) >= reach \/ Abs(ay - by) >= reach THEN FALSE
    ELSE (ax - bx) * (ax - bx) + (ay - by) * (ay - by) < reach * reach

\* C23: the collectible's collides_with returns true exactly when the
\* centres are strictly less than the sum of the two radii apart, so not
\* when the circles just touch; the powerup's returns the same for its own
\* radius while the powerup is active and false while it is not; neither
\* call changes the collectible or the powerup.
C23_Collides ==
    [][(pc = "calls" /\ game.test = "collide")
       => /\ game'.item_hit
                <=> Closer(game.item.x, game.item.y, game'.px, game'.py,
                           Px(ITEM_RADIUS + game'.pradius))
          /\ game'.powerup_hit
                <=> /\ game.powerup.active
                    /\ Closer(game.powerup.x, game.powerup.y,
                              game'.px, game'.py,
                              Px(POWERUP_RADIUS + game'.pradius))
          /\ game'.item = game.item
          /\ game'.powerup = game.powerup]_vars

\* a circle of radius 12 whose centre is exactly 20 from the collectible's,
\* 12 across and 16 down, does not collide with it, and does collide with
\* the active powerup on the same spot
C23_Witness ==
    /\ pc = "calls"
    /\ game.test = "collide"
    /\ game.calls > 0
    /\ game.px - game.item.x = Px(12)
    /\ game.py - game.item.y = Px(16)
    /\ game.pradius = NORMAL_RADIUS
    /\ ~game.item_hit
    /\ game.powerup.active
    /\ game.powerup_hit

----------------------------------------------------------------------------
(* C24 *)

\* the player as a move call finds it: with the radius just assigned
Mover == [game.player EXCEPT !.RADIUS = game'.player.RADIUS]

\* how far the call has taken the player along each axis
MovedX == Abs(game'.player.x - game.player.x)
MovedY == Abs(game'.player.y - game.player.y)

\* how far the single-axis calls would have taken it from the same position
AloneX == Abs(Move(Mover, keys'[1], 0, WIDTH, HEIGHT).x - game.player.x)
AloneY == Abs(Move(Mover, 0, keys'[2], WIDTH, HEIGHT).y - game.player.y)

\* the call was a move with both components of the direction nonzero
DiagonalCall ==
    /\ pc = "calls"
    /\ game.test = "player"
    /\ keys'[1] # 0
    /\ keys'[2] # 0

\* C24 as stated: from every position a move with both components nonzero
\* takes the player strictly less far along each axis than the single-axis
\* move does along that axis.
C24_AsStated ==
    [][DiagonalCall => MovedX < AloneX /\ MovedY < AloneY]_vars

\* C24: a move with both components nonzero never takes the player further
\* along an axis than the single-axis move from the same position does, and
\* takes it strictly less far along an axis when the player starts within
\* the field and the wall does not shorten the single-axis move along that
\* axis; where the clamp decides where both moves end, the two are equal.
C24_Diagonal ==
    [][DiagonalCall
       => /\ MovedX <= AloneX
          /\ MovedY <= AloneY
          /\ (InField(Mover) /\ AloneX = Px(SPEED)) => MovedX < AloneX
          /\ (InField(Mover) /\ AloneY = Px(SPEED)) => MovedY < AloneY]_vars

\* a player in the middle of the field has moved down and right by 0.707
\* of its speed on each axis
C24_Witness ==
    /\ pc = "calls"
    /\ game.test = "player"
    /\ game.calls = 1
    /\ keys = <<1, 1>>
    /\ game.player.x = Px(WIDTH \div 2) + DIAGONAL * SPEED
    /\ game.player.y = Px(HEIGHT \div 2) + DIAGONAL * SPEED

----------------------------------------------------------------------------
(* C25 *)

\* C25: within one call of _update every named audio event (item collected,
\* powerup collected, echo spawned, ghost eaten, game over) is played at most
\* once, also when several echoes overlap the player.  The collision pass
\* plays "ghost_eaten" inside its loop, once per echo eaten, so a tick that
\* eats two echoes plays it twice.
C25_AtMostOnce ==
    \A i, j \in 1..Len(game.sound) : game.sound[i] = game.sound[j] => i = j

\* the tick in which two echoes were eaten
C25_DoubleEat ==
    /\ game.state = PLAYING
    /\ game.ghosts_eaten = 2
    /\ TimesPlayed(game, "ghost_eaten") = 2

----------------------------------------------------------------------------
(* C26 *)

\* the echo under test was constructed from an empty path
EmptyEcho == pc = "calls" /\ game.test = "echo" /\ game.echo.path = <<>>

\* C26: an echo constructed from an empty path is at the fallback position
\* (0, 0) before and after any number of update calls, its cursor stays 0,
\* it is not finished before the first update call and finished after it.
C26_EmptyPath ==
    EmptyEcho
    => /\ EchoX(game.echo) = 0
       /\ EchoY(game.echo) = 0
       /\ game.echo.frame_index = 0
       /\ game.echo.trail = <<>>
       /\ game.echo.finished <=> game.calls >= 1

\* an echo of an empty path after its third update call
C26_Witness ==
    /\ EmptyEcho
    /\ game.calls = 3
    /\ game.echo.finished
    /\ EchoX(game.echo) = 0

----------------------------------------------------------------------------
(* C27 *)

\* the echoes the tick has eaten
EatenNow == game'.ghosts_eaten - game.ghosts_eaten

\* the last echo of the list after the tick
Newest == game'.echoes[Len(game'.echoes)]

\* C27: in a tick whose echo timer, dt added, has reached ECHO_INTERVAL
\* exactly one echo is appended, however large dt is: its path is the
\* player's path history with the position this tick's move recorded, its
\* colour is that of index echo_count, the timer is 0 after the tick and
\* echo_count is one more; in every other tick no echo is created, echo_count
\* stays and the timer has grown by dt.
C27_SpawnEcho ==
    [][TickStep
       => IF game.echo_timer + TickDt >= Sec(ECHO_INTERVAL)
          THEN /\ Len(game'.echoes) + EatenNow = Len(game.echoes) + 1
               /\ Newest.path = game'.player.path_history
               /\ Len(Newest.path) = Len(game.player.path_history) + 1
               /\ Newest.color = game.echo_count % ECHO_COLORS
               /\ Newest.frame_index <= 1
               /\ game'.echo_timer = 0
               /\ game'.echo_count = game.echo_count + 1
               /\ TimesPlayed(game', "echo_spawn") = 1
          ELSE /\ Len(game'.echoes) + EatenNow = Len(game.echoes)
               /\ game'.echo_count = game.echo_count
               /\ game'.echo_timer = game.echo_timer + TickDt
               /\ ~Played(game', "echo_spawn")]_vars

\* the tick of the long frame has spawned the first echo, and only one,
\* though the timer had passed the interval by nearly a whole interval
C27_Witness ==
    /\ pc = "events"
    /\ lags = 1
    /\ Played(game, "echo_spawn")
    /\ game.echo_count = 1
    /\ Len(game.echoes) = 1
    /\ game.echo_timer = 0
    /\ game.game_time = (LagEvery - 1) * DtFrame + DtLag
    /\ game.echoes[1].path = game.player.path_history

----------------------------------------------------------------------------
(* C28 *)

\* the step is the restart that resets the session
ResetStep == pc = "events" /\ last_key' = "r" /\ game.state = GAME_OVER

\* the echoes of the list that the step has taken out of it
Gone ==
    Cardinality({i \in 1..Len(game.echoes) :
                    ~Holds(game'.echoes, game.echoes[i])})

\* C28: in every state of a session the echoes in the list and the echoes
\* eaten add up to echo_count; an echo leaves the list only by being eaten,
\* and echo_count never decreases except by a reset.
C28_EchoCount ==
    /\ [](Len(game.echoes) + game.ghosts_eaten = game.echo_count)
    /\ [][~ResetStep => /\ game'.echo_count >= game.echo_count
                        /\ Gone = game'.ghosts_eaten - game.ghosts_eaten]_vars

\* two echoes have been eaten and the third one spawned since
C28_Witness ==
    /\ game.state = PLAYING
    /\ game.ghosts_eaten = 2
    /\ Len(game.echoes) = 1
    /\ game.echo_count = 3

----------------------------------------------------------------------------
(* C29 *)

\* C29: in every state of a session the score is the number of collectibles
\* picked up since the reset plus GHOST_BONUS for every echo eaten; it is
\* never negative and never decreases except by a reset.
C29_Score ==
    /\ [](/\ game.score = pickups + GHOST_BONUS * game.ghosts_eaten
          /\ game.score >= 0)
    /\ [][~ResetStep => game'.score >= game.score]_vars

\* a collectible picked up and two echoes eaten
C29_Witness ==
    /\ pickups = 1
    /\ game.ghosts_eaten = 2
    /\ game.score = 1 + 2 * GHOST_BONUS

----------------------------------------------------------------------------
(* C30 *)

\* an active ghost-eater powerup lies where this tick's move takes the player
TouchesGhostEater ==
    /\ game.powerup.active
    /\ game.powerup.powerup_type = GHOST_EATER
    /\ PowerupCollides(game.powerup, AtPass.player.x, AtPass.player.y,
                       AtPass.player.RADIUS)

\* C30: a ghost-eater powerup collected in a tick governs the echo collision
\* pass of the same tick: when the player overlaps an active ghost-eater
\* powerup and, the global grace over, an echo past its own grace, the
\* powerup is collected, every such echo is eaten and the phase stays
\* PLAYING.
C30_SameTick ==
    [][(TickStep /\ TouchesGhostEater /\ GlobalGraceOver(game')
        /\ Overlapped(AtPass))
       => /\ Played(game', GhostEaterPickup)
          /\ ~game'.powerup.active
          /\ HasEffect(game'.active_effects, GHOST_EATER)
          /\ game'.state = PLAYING
          /\ ~Played(game', "game_over")
          /\ EatenNow >= 1
          /\ \A i \in 1..Len(AtPass.echoes) :
                (PastGrace(AtPass.echoes[i]) /\ EchoHit(AtPass, AtPass.echoes[i]))
                => ~Holds(game'.echoes, AtPass.echoes[i])]_vars

\* the tick that took the player onto the powerup, with no effect active
\* before it, has eaten the echo it overlapped as well
C30_Witness ==
    /\ pc = "events"
    /\ game.state = PLAYING
    /\ Played(game, GhostEaterPickup)
    /\ Played(game, "ghost_eaten")
    /\ game.ghosts_eaten = 1
    /\ Len(game.active_effects) = 1
    /\ game.active_effects[1].remaining = Sec(ConfigDuration(GHOST_EATER))

----------------------------------------------------------------------------
(* C31 *)

\* the collectible lies where this tick's move takes the player
TouchesItem ==
    ItemCollides(game.item, AtPass.player.x, AtPass.player.y,
                 AtPass.player.RADIUS)

\* C31: a collectible picked up in the tick of a fatal echo collision is
\* counted: the tick that ends the game has raised the score by one before,
\* and the best score is compared with the score that includes that pickup.
C31_PickupCounts ==
    [][(TickStep /\ TouchesItem /\ game'.state = GAME_OVER)
       => /\ TimesPlayed(game', "collect_item") = 1
          /\ Played(game', "game_over")
          /\ game'.score = game.score + 1
          /\ game'.high_score = Max(game.high_score, game.score + 1)]_vars

\* the first session has ended in the tick of its only pickup, and the best
\* score is that pickup
C31_Witness ==
    /\ game.state = GAME_OVER
    /\ run_ticks = ticks
    /\ pickups = 1
    /\ Played(game, "collect_item")
    /\ Played(game, "game_over")
    /\ game.score = 1
    /\ game.high_score = 1

----------------------------------------------------------------------------
(* C32 *)

\* the echo's snapshot is no longer than the grace threshold in ticks
Short(echo) == Len(echo.path) <= FPS * COLLISION_GRACE

\* C32: an echo whose snapshot has at most FPS * COLLISION_GRACE positions
\* never ends the game and is never eaten: the cursor of every echo stays
\* within its path length, so such an echo is never past its grace, every
\* tick leaves it in the list, and a tick that ends the game has found a
\* longer echo past its grace on the player.
C32_ShortEcho ==
    /\ [](\A i \in 1..Len(game.echoes) :
             /\ game.echoes[i].frame_index <= Len(game.echoes[i].path)
             /\ Short(game.echoes[i]) => ~PastGrace(game.echoes[i]))
    /\ [][TickStep
          => /\ \A i \in 1..Len(game.echoes) :
                   Short(game.echoes[i])
                   => Holds(game'.echoes, game.echoes[i])
             /\ game'.state = GAME_OVER
                => \E j \in 1..Len(game'.echoes) :
                      /\ ~Short(game'.echoes[j])
                      /\ PastGrace(game'.echoes[j])
                      /\ EchoHit(game', game'.echoes[j])]_vars

\* the echo spawned by the long frame has replayed all of its sixty
\* positions and lies on the player while the ghost-eater effect is active:
\* it has neither been eaten nor ended the game
C32_Witness ==
    /\ pc = "events"
    /\ game.state = PLAYING
    /\ lags = 1
    /\ game.ghosts_eaten = 0
    /\ Len(game.echoes) = 1
    /\ Len(game.echoes[1].path) = FPS * COLLISION_GRACE
    /\ game.echoes[1].finished
    /\ EchoHit(game, game.echoes[1])
    /\ HasEffect(game.active_effects, GHOST_EATER)
    /\ GlobalGraceOver(game)

----------------------------------------------------------------------------
(* C33 *)

\* the echo is where its snapshot ends
AtLast(echo) ==
    /\ EchoX(echo) = echo.path[Len(echo.path)][1]
    /\ EchoY(echo) = echo.path[Len(echo.path)][2]

\* C33: finishing takes no echo out of the list: a tick removes an echo,
\* finished or not, only by eating it, a finished echo is at the last
\* position of its snapshot, and the collision pass still tests it: a tick
\* without an active ghost-eater effect that leaves the game PLAYING has
\* found no finished echo past its grace on the player.
C33_FinishedStays ==
    [][TickStep
       => /\ \A i \in 1..Len(game.echoes) :
                \/ Holds(game'.echoes, game.echoes[i])
                \/ /\ HasEffect(game'.active_effects, GHOST_EATER)
                   /\ game'.ghosts_eaten > game.ghosts_eaten
          /\ \A i \in 1..Len(game'.echoes) :
                game'.echoes[i].finished => AtLast(game'.echoes[i])
          /\ (/\ GlobalGraceOver(game')
              /\ ~HasEffect(game'.active_effects, GHOST_EATER)
              /\ \E i \in 1..Len(game'.echoes) :
                    /\ game'.echoes[i].finished
                    /\ PastGrace(game'.echoes[i])
                    /\ EchoHit(game', game'.echoes[i]))
             => game'.state = GAME_OVER]_vars

\* the player has walked back onto the first echo, which had finished its
\* replay, while the second one was still in its grace: the game is over
C33_Witness ==
    /\ game.state = GAME_OVER
    /\ Played(game, "game_over")
    /\ Len(game.echoes) = 2
    /\ game.echoes[1].finished
    /\ AtLast(game.echoes[1])
    /\ PastGrace(game.echoes[1])
    /\ EchoHit(game, game.echoes[1])
    /\ ~PastGrace(game.echoes[2])

----------------------------------------------------------------------------
(* C34 *)

\* C34: the global grace never decides a collision: game_time and the echo
\* timer start at 0 together and grow by the same dt until the first spawn,
\* the echo timer never runs ahead of game_time, and so in every state whose
\* session has spawned an echo, and in every state with an echo in the list,
\* game_time >= ECHO_INTERVAL > COLLISION_GRACE.
C34_GraceGate ==
    /\ ECHO_INTERVAL > COLLISION_GRACE
    /\ game.echo_timer <= game.game_time
    /\ game.echo_count = 0 => game.echo_timer = game.game_time
    /\ game.echo_count > 0 => game.game_time >= Sec(ECHO_INTERVAL)
    /\ game.echoes # <<>>
       => /\ game.game_time >= Sec(ECHO_INTERVAL)
          /\ GlobalGraceOver(game)

\* the tick that has spawned the first echo of a session, at the first
\* game_time that is not below the interval
C34_Witness ==
    /\ pc = "events"
    /\ Played(game, "echo_spawn")
    /\ Len(game.echoes) = 1
    /\ game.echo_count = 1
    /\ game.game_time >= Sec(ECHO_INTERVAL)
    /\ game.game_time < Sec(ECHO_INTERVAL) + DtFrame

----------------------------------------------------------------------------
(* An echo, the powerup and the effect list of a session that never ends *)

\* the dt values of its ticks, all positive
FreezeDts == {Sec(1), Sec(3)}

\* where the powerup spawns, and a place out of its reach
FreezeSpot == <<Px(400), Px(300)>>
FreezeAway == <<Px(40), Px(40)>>

\* the powerup when the echo is spawned: waiting for its next spawn or lying
\* on its spot
FreezePowerups ==
    {PowerupInit} \cup
    {PowerupSpawn(PowerupInit, ptype, FreezeSpot) : ptype \in PowerupType}

\* the part of a Game that lines 127-128 and 160-180 of _update work on:
\* an echo that has just been spawned, the powerup, the effect list and the
\* player; held tells that some tick has left the echo where it was before
\* the end of its replay
FreezeFixture(path, pu) ==
    [test |-> "freeze",
     echoes |-> <<EchoInit(path, 0)>>,
     powerup |-> pu,
     active_effects |-> <<>>,
     player |-> PlayerInit(Px(WIDTH \div 2), Px(HEIGHT \div 2)),
     sound |-> <<>>,
     held |-> FALSE]

FreezeInit ==
    /\ game \in {FreezeFixture(path, pu) :
                    path \in UnitPaths, pu \in FreezePowerups}
    /\ keys = <<0, 0>>
    /\ pc = "calls"
    /\ last_key = "none"
    /\ ticks = 0
    /\ pickups = 0
    /\ lags = 0
    /\ run_ticks = 0

\* one tick of a session that stays PLAYING, as far as the echoes'
\* advancement goes: the expiry filter, the advance step, the powerup's
\* update and its collection, the player being where its move has taken it,
\* on the powerup's spot or away from it
FreezeTick ==
    /\ pc = "calls"
    /\ game.test = "freeze"
    /\ \E dt \in FreezeDts, ptype \in PowerupType,
          at \in {FreezeSpot, FreezeAway} :
         LET filtered == [game EXCEPT
                             !.sound = <<>>,
                             !.active_effects = FilterEffects(@, dt),
                             !.player.x = at[1],
                             !.player.y = at[2]]
             kind == IF SpawnDue(game.powerup, dt)
                     THEN ptype ELSE game.powerup.powerup_type
             after == StepCollect(StepPowerup(StepEchoes(filtered), dt, kind,
                                              FreezeSpot))
         IN game' = [after EXCEPT
                        !.held = \/ @
                                 \/ /\ ~game.echoes[1].finished
                                    /\ after.echoes = game.echoes]
    /\ UNCHANGED <<keys, pc, last_key, ticks, pickups, lags, run_ticks>>

FreezeNext == FreezeTick

\* the loop of run calls _update again and again, for as long as the
\* session is PLAYING
FreezeSpec == FreezeInit /\ [][FreezeNext]_vars /\ WF_vars(FreezeTick)

----------------------------------------------------------------------------
(* C35 *)

\* C35: in a session that stays PLAYING for ever, with every dt at least a
\* positive constant, every echo eventually finishes its replay: a time
\* freeze holds the echoes only until it expires, and the next powerup comes
\* SPAWN_INTERVAL after the collection, later than that.
C35_EchoesFinish ==
    (pc = "calls" /\ game.test = "freeze")
    ~> (\A i \in 1..Len(game.echoes) : game.echoes[i].finished)

\* an echo of the longest path has finished though a time freeze has held it
C35_Witness ==
    /\ pc = "calls"
    /\ game.test = "freeze"
    /\ game.held
    /\ Len(game.echoes[1].path) = MaxPath
    /\ game.echoes[1].finished

====
